---- MODULE Spec2Model ----
(***************************************************************************)
(* Cell-cycle state machine of cell_type.py: the construction gate of      *)
(* CellTypeAttributesMeta, the fields AbstractCellType.__init__ assigns,   *)
(* and the handlers of GenericCell (do_cell_cycle, g0/g1/s/m_phase,        *)
(* hypoxic_death).  Oxygen levels and thresholds are in hundredths;        *)
(* volumes are exact rationals in units of seed_vol.  An exception that    *)
(* leaves a handler is recorded in `raised`, with the assignments made     *)
(* before the raising line kept, as Python keeps them.                     *)
(***************************************************************************)
EXTENDS Integers, Sequences, FiniteSets, TLC

VARIABLES
    cls_attrs,              \* class attributes the concrete type defines
    cls_init,               \* how the concrete type's __init__ is written
    type_does_age,          \* the does_age attribute of the concrete type
    ctor_result,            \* outcome of calling the class
    current_phase,
    current_cyc_iteration,
    current_vol,
    current_age,
    is_dead,
    cyc_len,
    g1_len,
    oxygen,                 \* cell_body.get_substance_level("oxygen")
    contact_inhibited,      \* cell_body.is_contact_inhibited()
    body_vol,               \* volume last handed to the cell body
    vol_calls,              \* volume-change calls the last call made
    raised,                 \* exception raised by the last call
    last_op,                \* the handler that ran last
    m_ticks,                \* number of M-phase ticks run so far
    hypoxic                 \* hypoxic_death has marked the cell dead

vars == <<cls_attrs, cls_init, type_does_age, ctor_result, current_phase,
          current_cyc_iteration, current_vol, current_age, is_dead,
          cyc_len, g1_len, oxygen, contact_inhibited, body_vol, vol_calls,
          raised, last_op, m_ticks, hypoxic>>

cell_vars == <<current_phase, current_cyc_iteration, current_vol,
               current_age, is_dead, cyc_len, g1_len, body_vol>>
env_vars == <<oxygen, contact_inhibited>>
cls_vars == <<cls_attrs, cls_init, type_does_age, ctor_result>>

----------------------------------------------------------------------------
(* Bounds *)

MaxCycLen == 4      \* largest cycle length drawn
MaxG1Len == 3       \* largest G1 length drawn
NegLen == 1         \* most negative duration drawn is -NegLen
MaxIter == 6        \* ticks that increment the iteration counter
MaxMTicks == 6      \* M-phase ticks

----------------------------------------------------------------------------
(* Class constants of GenericCell *)

does_age == TRUE
lifespan == 4
g0_oxy_threshold == 50
hypoxia_theshold == 25

OxygenLevels == {10, 25, 40, 50, 60}

cell_type_attributes ==
    <<"seed_radius", "mean_cyc_len", "std_dev_cyc_len", "does_age", "lifespan">>

AllAttrs == {cell_type_attributes[i] : i \in 1..Len(cell_type_attributes)}

GenericCellAttrs == AllAttrs

----------------------------------------------------------------------------
(* Exact rationals for volumes *)

Abs(x) == IF x < 0 THEN -x ELSE x

RECURSIVE GCD(_, _)
GCD(a, b) == IF b = 0 THEN a ELSE GCD(b, a % b)

Rat(n, d) ==
    LET g == GCD(Abs(n), Abs(d))
        s == IF d < 0 THEN -1 ELSE 1
    IN  [n |-> (s * n) \div g, d |-> (s * d) \div g]

RatAdd(a, b) == Rat(a.n * b.d + b.n * a.d, a.d * b.d)

RatLeq(a, b) == a.n * b.d <= b.n * a.d

seed_vol == [n |-> 1, d |-> 1]

----------------------------------------------------------------------------
(* Construction: CellTypeAttributesMeta.__call__ *)

InitStyles == {"super_noargs", "super_self_pos", "own"}

NoError == "none"

\* What running the concrete type's __init__ raises.
\*   super_noargs   : GenericCell.__init__, super().__init__() binds only the
\*                    instance to (cls, self, pos)
\*   super_self_pos : the body of AbstractCellType.__init__ runs; line 31
\*                    reads seed_radius, line 35 calls get_cyc_len(cls, self)
\*                    with the instance alone
\*   own            : an __init__ that does not chain to the base class
init_raises(attrs, style) ==
    CASE style = "super_noargs" -> "TypeError"
      [] style = "super_self_pos" ->
            IF "seed_radius" \notin attrs THEN "AttributeError" ELSE "TypeError"
      [] OTHER -> NoError

FirstMissing(attrs) ==
    LET idx == {i \in 1..Len(cell_type_attributes) :
                    cell_type_attributes[i] \notin attrs}
    IN  IF idx = {} THEN "none"
        ELSE cell_type_attributes[CHOOSE i \in idx : \A j \in idx : i <= j]

meta_call(attrs, style) ==
    LET e == init_raises(attrs, style) IN
    IF e # NoError THEN [exc |-> e, attr |-> "none"]
    ELSE IF FirstMissing(attrs) # "none"
         THEN [exc |-> "NotImplementedError", attr |-> FirstMissing(attrs)]
         ELSE [exc |-> NoError, attr |-> "none"]

Pending == [exc |-> "pending", attr |-> "none"]

Unset == "unset"

InitConstruct ==
    /\ cls_attrs \in SUBSET AllAttrs
    /\ cls_init \in InitStyles
    /\ type_does_age = does_age
    /\ vol_calls = 0
    /\ ctor_result = Pending
    /\ current_phase = Unset
    /\ current_cyc_iteration = 0
    /\ current_vol = seed_vol
    /\ current_age = 0
    /\ is_dead = FALSE
    /\ cyc_len = 0
    /\ g1_len = 0
    /\ oxygen = 60
    /\ contact_inhibited = FALSE
    /\ body_vol = seed_vol
    /\ raised = NoError
    /\ last_op = "none"
    /\ m_ticks = 0
    /\ hypoxic = FALSE

Construct ==
    /\ ctor_result = Pending
    /\ ctor_result' = meta_call(cls_attrs, cls_init)
    /\ raised' = meta_call(cls_attrs, cls_init).exc
    /\ last_op' = "construct"
    /\ UNCHANGED <<cls_attrs, cls_init, type_does_age, cell_vars, env_vars,
                   vol_calls, m_ticks, hypoxic>>

NextConstruct == Construct

SpecConstruct == InitConstruct /\ [][NextConstruct]_vars

----------------------------------------------------------------------------
(* Duration samplers: integer truncations of normal draws *)

get_cyc_len == (0 - NegLen)..MaxCycLen

\* scale = mean / 10: a negative cyc_len makes numpy raise, cyc_len = 0
\* gives scale 0 and the draw is exactly the mean.
get_g1_len(c) ==
    IF c < 0 THEN {}
    ELSE IF c = 0 THEN {0}
    ELSE (0 - NegLen)..MaxG1Len

----------------------------------------------------------------------------
(* The fields as lines 33-40 of AbstractCellType.__init__ assign them, for   *)
(* every pair of durations the samplers can draw.  Whether a call of the    *)
(* class gets that far is the subject of SpecConstruct above.               *)

Init ==
    /\ cls_attrs = GenericCellAttrs
    /\ cls_init = "super_noargs"
    /\ type_does_age \in BOOLEAN
    /\ vol_calls = 0
    /\ ctor_result = Pending
    /\ current_vol = seed_vol
    /\ body_vol = seed_vol
    /\ cyc_len \in get_cyc_len
    /\ g1_len \in get_g1_len(cyc_len)
    /\ current_phase = "G1"
    /\ current_cyc_iteration = 0
    /\ current_age = 0
    /\ is_dead = FALSE
    /\ oxygen \in OxygenLevels
    /\ contact_inhibited \in BOOLEAN
    /\ raised = NoError
    /\ last_op = "init"
    /\ m_ticks = 0
    /\ hypoxic = FALSE

----------------------------------------------------------------------------
(* Cell body *)

get_substance_level == oxygen

is_contact_inhibited == contact_inhibited

\* truth value of the bound method object cell_body.is_contact_inhibited
is_contact_inhibited_attr == TRUE

EnvChange ==
    /\ oxygen' \in OxygenLevels
    /\ contact_inhibited' \in BOOLEAN
    /\ <<oxygen', contact_inhibited'>> # <<oxygen, contact_inhibited>>
    /\ last_op' = "env"
    /\ raised' = NoError
    /\ vol_calls' = 0
    /\ UNCHANGED <<cls_vars, cell_vars, m_ticks, hypoxic>>

----------------------------------------------------------------------------
(* Conditions the handlers read from the cell body *)

\* variant of g1_exit_arrest: the method object is tested, not its result
g1_exit_arrest_uncalled ==
    get_substance_level < g0_oxy_threshold \/ is_contact_inhibited_attr

\* line 112: oxygen < g0_oxy_threshold or is_contact_inhibited()
g1_exit_arrest ==
    get_substance_level < g0_oxy_threshold \/ is_contact_inhibited

\* line 127: oxygen < g0_oxy_threshold or is_contact_inhibited (not called)
s_exit_arrest ==
    get_substance_level < g0_oxy_threshold \/ is_contact_inhibited_attr

\* variant of g0_may_resume: >= in place of >
g0_may_resume_at_threshold ==
    ~is_contact_inhibited /\ get_substance_level >= g0_oxy_threshold

\* line 118: not is_contact_inhibited() and oxygen > g0_oxy_threshold
g0_may_resume ==
    ~is_contact_inhibited /\ get_substance_level > g0_oxy_threshold

\* variant of is_hypoxic: <= in place of <
is_hypoxic_at_threshold == get_substance_level <= hypoxia_theshold

\* line 150: oxygen < hypoxia_theshold
is_hypoxic == get_substance_level < hypoxia_theshold

\* self.get_cyc_len() on an instance: get_cyc_len(cls, self) receives the
\* instance as cls and nothing for self
call_get_cyc_len == "TypeError"

----------------------------------------------------------------------------
(* Phase handlers of GenericCell *)

\* variant of g1_phase: >= in place of == at the exit test
g1_phase_exits_past_len ==
    /\ current_cyc_iteration < MaxIter
    /\ current_cyc_iteration' = current_cyc_iteration + 1
    /\ IF g1_len = 0
       THEN /\ raised' = "ZeroDivisionError"
            /\ vol_calls' = 0
            /\ UNCHANGED <<current_vol, body_vol, current_phase>>
       ELSE /\ raised' = NoError
            /\ vol_calls' = 1
            /\ current_vol' = RatAdd(current_vol, Rat(seed_vol.n, seed_vol.d * g1_len))
            /\ body_vol' = current_vol'
            /\ current_phase' =
                   IF current_cyc_iteration' >= g1_len
                   THEN (IF g1_exit_arrest THEN "G0" ELSE "S")
                   ELSE current_phase
    /\ last_op' = "g1_phase"
    /\ UNCHANGED <<current_age, is_dead, cyc_len, g1_len, m_ticks>>

\* variant of g1_phase: = in place of += on current_vol
g1_phase_assigns_increment ==
    /\ current_cyc_iteration < MaxIter
    /\ current_cyc_iteration' = current_cyc_iteration + 1
    /\ IF g1_len = 0
       THEN /\ raised' = "ZeroDivisionError"
            /\ vol_calls' = 0
            /\ UNCHANGED <<current_vol, body_vol, current_phase>>
       ELSE /\ raised' = NoError
            /\ vol_calls' = 1
            /\ current_vol' = Rat(seed_vol.n, seed_vol.d * g1_len)
            /\ body_vol' = current_vol'
            /\ current_phase' =
                   IF current_cyc_iteration' = g1_len
                   THEN (IF g1_exit_arrest THEN "G0" ELSE "S")
                   ELSE current_phase
    /\ last_op' = "g1_phase"
    /\ UNCHANGED <<current_age, is_dead, cyc_len, g1_len, m_ticks>>

g1_phase ==
    /\ current_cyc_iteration < MaxIter
    /\ current_cyc_iteration' = current_cyc_iteration + 1
    /\ IF g1_len = 0
       THEN /\ raised' = "ZeroDivisionError"
            /\ vol_calls' = 0
            /\ UNCHANGED <<current_vol, body_vol, current_phase>>
       ELSE /\ raised' = NoError
            /\ vol_calls' = 1
            /\ current_vol' = RatAdd(current_vol, Rat(seed_vol.n, seed_vol.d * g1_len))
            /\ body_vol' = current_vol'
            /\ current_phase' =
                   IF current_cyc_iteration' = g1_len
                   THEN (IF g1_exit_arrest THEN "G0" ELSE "S")
                   ELSE current_phase
    /\ last_op' = "g1_phase"
    /\ UNCHANGED <<current_age, is_dead, cyc_len, g1_len, m_ticks>>

\* variant of g0_phase: resumption always goes back to S
g0_phase_resumes_to_S ==
    /\ current_phase' = IF g0_may_resume THEN "S" ELSE current_phase
    /\ raised' = NoError
    /\ vol_calls' = 0
    /\ last_op' = "g0_phase"
    /\ UNCHANGED <<current_cyc_iteration, current_vol, body_vol, current_age,
                   is_dead, cyc_len, g1_len, m_ticks>>

\* variant of g0_phase: a cell past G1 resumes to G2 in place of M
g0_phase_resumes_to_G2 ==
    /\ current_phase' =
           IF g0_may_resume
           THEN (IF current_cyc_iteration = g1_len THEN "S" ELSE "G2")
           ELSE current_phase
    /\ raised' = NoError
    /\ vol_calls' = 0
    /\ last_op' = "g0_phase"
    /\ UNCHANGED <<current_cyc_iteration, current_vol, body_vol, current_age,
                   is_dead, cyc_len, g1_len, m_ticks>>

\* variant of g0_phase: a quiescent cell dies when oxygen is below
\* hypoxia_theshold
g0_phase_dies_when_hypoxic ==
    /\ current_phase' =
           IF g0_may_resume
           THEN (IF current_cyc_iteration = g1_len THEN "S" ELSE "M")
           ELSE current_phase
    /\ is_dead' = IF is_hypoxic THEN TRUE ELSE is_dead
    /\ raised' = NoError
    /\ vol_calls' = 0
    /\ last_op' = "g0_phase"
    /\ UNCHANGED <<current_cyc_iteration, current_vol, body_vol, current_age,
                   cyc_len, g1_len, m_ticks>>

\* variant of g0_phase: the durations are drawn again when the cell resumes
g0_phase_resamples ==
    /\ current_phase' =
           IF g0_may_resume
           THEN (IF current_cyc_iteration = g1_len THEN "S" ELSE "M")
           ELSE current_phase
    /\ IF g0_may_resume
       THEN /\ cyc_len' \in {c \in get_cyc_len : c >= 0}
            /\ g1_len' \in get_g1_len(cyc_len')
       ELSE UNCHANGED <<cyc_len, g1_len>>
    /\ raised' = NoError
    /\ vol_calls' = 0
    /\ last_op' = "g0_phase"
    /\ UNCHANGED <<current_cyc_iteration, current_vol, body_vol, current_age,
                   is_dead, m_ticks>>

\* variant of g0_phase: the quiescent cell reports its volume to the body
g0_phase_reports_volume ==
    /\ current_phase' =
           IF g0_may_resume
           THEN (IF current_cyc_iteration = g1_len THEN "S" ELSE "M")
           ELSE current_phase
    /\ raised' = NoError
    /\ vol_calls' = 1
    /\ body_vol' = current_vol
    /\ last_op' = "g0_phase"
    /\ UNCHANGED <<current_cyc_iteration, current_vol, current_age,
                   is_dead, cyc_len, g1_len, m_ticks>>

g0_phase ==
    /\ current_phase' =
           IF g0_may_resume
           THEN (IF current_cyc_iteration = g1_len THEN "S" ELSE "M")
           ELSE current_phase
    /\ raised' = NoError
    /\ vol_calls' = 0
    /\ last_op' = "g0_phase"
    /\ UNCHANGED <<current_cyc_iteration, current_vol, body_vol, current_age,
                   is_dead, cyc_len, g1_len, m_ticks>>

\* variant of s_phase: the exit test compares with cyc_len, not cyc_len - 1
s_phase_exit_at_cyc_len ==
    /\ current_cyc_iteration < MaxIter
    /\ current_cyc_iteration' = current_cyc_iteration + 1
    /\ current_phase' =
           IF current_cyc_iteration' = cyc_len
           THEN (IF s_exit_arrest THEN "G0" ELSE "M")
           ELSE current_phase
    /\ raised' = NoError
    /\ vol_calls' = 0
    /\ last_op' = "s_phase"
    /\ UNCHANGED <<current_vol, body_vol, current_age, is_dead, cyc_len,
                   g1_len, m_ticks>>

\* variant of s_phase: the growth lines of g1_phase repeated in S
s_phase_grows ==
    /\ current_cyc_iteration < MaxIter
    /\ current_cyc_iteration' = current_cyc_iteration + 1
    /\ current_vol' = RatAdd(current_vol, Rat(seed_vol.n, seed_vol.d * g1_len))
    /\ body_vol' = current_vol'
    /\ current_phase' =
           IF current_cyc_iteration' = cyc_len - 1
           THEN (IF s_exit_arrest THEN "G0" ELSE "M")
           ELSE current_phase
    /\ raised' = NoError
    /\ vol_calls' = 1
    /\ last_op' = "s_phase"
    /\ UNCHANGED <<current_age, is_dead, cyc_len, g1_len, m_ticks>>

s_phase ==
    /\ current_cyc_iteration < MaxIter
    /\ current_cyc_iteration' = current_cyc_iteration + 1
    /\ current_phase' =
           IF current_cyc_iteration' = cyc_len - 1
           THEN (IF s_exit_arrest THEN "G0" ELSE "M")
           ELSE current_phase
    /\ raised' = NoError
    /\ vol_calls' = 0
    /\ last_op' = "s_phase"
    /\ UNCHANGED <<current_vol, body_vol, current_age, is_dead, cyc_len,
                   g1_len, m_ticks>>

g2_phase ==
    /\ raised' = NoError
    /\ vol_calls' = 0
    /\ last_op' = "g2_phase"
    /\ UNCHANGED <<cell_vars, m_ticks>>

\* current_vol and current_phase are not assigned by m_phase.
m_phase ==
    /\ m_ticks < MaxMTicks
    /\ m_ticks' = m_ticks + 1
    /\ body_vol' = seed_vol
    /\ vol_calls' = 1
    /\ current_cyc_iteration' = 0
    /\ last_op' = "m_phase"
    /\ UNCHANGED <<current_vol, current_phase>>
    /\ IF call_get_cyc_len # NoError
       THEN /\ raised' = call_get_cyc_len
            /\ UNCHANGED <<cyc_len, g1_len, current_age, is_dead>>
       ELSE /\ cyc_len' \in get_cyc_len
            /\ IF get_g1_len(cyc_len') = {}
               THEN /\ raised' = "ValueError"
                    /\ UNCHANGED <<g1_len, current_age, is_dead>>
               ELSE /\ raised' = NoError
                    /\ g1_len' \in get_g1_len(cyc_len')
                    /\ current_age' =
                           IF type_does_age THEN current_age + 1
                           ELSE current_age
                    /\ is_dead' =
                           IF current_age' > lifespan THEN TRUE ELSE is_dead

\* variant of do_cell_cycle: a dead cell is not dispatched
do_cell_cycle_skips_dead ==
    /\ IF is_dead
       THEN /\ raised' = NoError
            /\ vol_calls' = 0
            /\ last_op' = "do_cell_cycle"
            /\ UNCHANGED <<cell_vars, m_ticks>>
       ELSE IF current_phase = "G0" THEN g0_phase
       ELSE IF current_phase = "G1" THEN g1_phase
       ELSE IF current_phase = "S" THEN s_phase
       ELSE m_phase
    /\ UNCHANGED <<cls_vars, env_vars, hypoxic>>

do_cell_cycle ==
    /\ IF current_phase = "G0" THEN g0_phase
       ELSE IF current_phase = "G1" THEN g1_phase
       ELSE IF current_phase = "S" THEN s_phase
       ELSE m_phase
    /\ UNCHANGED <<cls_vars, env_vars, hypoxic>>

\* variant of hypoxic_death: is_dead follows the current oxygen level
hypoxic_death_follows_oxygen ==
    /\ is_dead' = is_hypoxic
    /\ hypoxic' = is_hypoxic
    /\ raised' = NoError
    /\ vol_calls' = 0
    /\ last_op' = "hypoxic_death"
    /\ UNCHANGED <<cls_vars, env_vars, current_phase, current_cyc_iteration,
                   current_vol, current_age, cyc_len, g1_len, body_vol,
                   m_ticks>>

hypoxic_death ==
    /\ is_dead' = IF is_hypoxic THEN TRUE ELSE is_dead
    /\ hypoxic' = IF is_hypoxic THEN TRUE ELSE hypoxic
    /\ raised' = NoError
    /\ vol_calls' = 0
    /\ last_op' = "hypoxic_death"
    /\ UNCHANGED <<cls_vars, env_vars, current_phase, current_cyc_iteration,
                   current_vol, current_age, cyc_len, g1_len, body_vol,
                   m_ticks>>

Next == do_cell_cycle \/ hypoxic_death \/ EnvChange

Spec == Init /\ [][Next]_vars

\* the cell is ticked forever: a do_cell_cycle call that would change the
\* state is eventually made
SpecLive == Init /\ [][Next]_vars /\ WF_vars(do_cell_cycle)

\* do_cell_cycle applied to a cell whose phase field holds any of the five
\* phase names of the handlers
Phases == {"G0", "G1", "S", "G2", "M"}

InitDispatch ==
    /\ cls_attrs = GenericCellAttrs
    /\ cls_init = "super_noargs"
    /\ type_does_age \in BOOLEAN
    /\ vol_calls = 0
    /\ ctor_result = Pending
    /\ current_vol = seed_vol
    /\ body_vol = seed_vol
    /\ cyc_len \in get_cyc_len
    /\ g1_len \in get_g1_len(cyc_len)
    /\ current_phase \in Phases
    /\ current_cyc_iteration = 0
    /\ current_age = 0
    /\ is_dead = FALSE
    /\ oxygen \in OxygenLevels
    /\ contact_inhibited \in BOOLEAN
    /\ raised = NoError
    /\ last_op = "init"
    /\ m_ticks = 0
    /\ hypoxic = FALSE

NextDispatch == do_cell_cycle

SpecDispatch == InitDispatch /\ [][NextDispatch]_vars

TypeOK ==
    /\ current_phase \in {"G0", "G1", "S", "M"}
    /\ current_cyc_iteration \in 0..MaxIter
    /\ is_dead \in BOOLEAN
    /\ m_ticks \in 0..MaxMTicks

----------------------------------------------------------------------------
(* Properties *)

\* C1: calling a concrete type that lacks one of the five required
\* attributes ends in NotImplementedError naming a missing attribute, and
\* calling a type that defines all five succeeds with a cell in G1,
\* iteration 0, age 0, not dead.
C1_ConstructionGate ==
    ctor_result # Pending =>
        IF cls_attrs = AllAttrs
        THEN /\ ctor_result.exc = NoError
             /\ current_phase = "G1"
             /\ current_cyc_iteration = 0
             /\ current_age = 0
             /\ is_dead = FALSE
        ELSE /\ ctor_result.exc = "NotImplementedError"
             /\ ctor_result.attr \in AllAttrs \ cls_attrs

\* C2: a G1 tick after which the iteration equals g1_len moves to G0 when
\* oxygen is below g0_oxy_threshold or the cell is contact-inhibited and to S
\* otherwise; any other G1 tick leaves the phase at G1.
C2_G1Exit ==
    [][(current_phase = "G1" /\ last_op' = "g1_phase") =>
          current_phase' =
              IF current_cyc_iteration' = g1_len'
              THEN (IF oxygen < g0_oxy_threshold \/ contact_inhibited
                    THEN "G0" ELSE "S")
              ELSE "G1"]_vars

C2_Witness ==
    /\ last_op = "g1_phase"
    /\ current_cyc_iteration = g1_len
    /\ current_phase = "S"
    /\ oxygen = g0_oxy_threshold

\* C3: an S tick after which the iteration equals cyc_len - 1 moves to M when
\* oxygen is not below g0_oxy_threshold and the cell is not contact-inhibited,
\* and to G0 otherwise (the predicate of the G1 exit).
C3_SExit ==
    [][(current_phase = "S" /\ last_op' = "s_phase"
            /\ current_cyc_iteration' = cyc_len' - 1) =>
          current_phase' =
              IF oxygen < g0_oxy_threshold \/ contact_inhibited
              THEN "G0" ELSE "M"]_vars

\* C4: a G0 tick with no contact inhibition and oxygen above
\* g0_oxy_threshold moves to S when the iteration equals g1_len and to M when
\* it does not; any other G0 tick stays in G0.
C4_G0Resume ==
    [][(current_phase = "G0" /\ last_op' = "g0_phase") =>
          current_phase' =
              IF ~contact_inhibited /\ oxygen > g0_oxy_threshold
              THEN (IF current_cyc_iteration = g1_len THEN "S" ELSE "M")
              ELSE "G0"]_vars

C4_Witness ==
    /\ last_op = "g0_phase"
    /\ current_phase = "M"
    /\ current_cyc_iteration # g1_len
    /\ ~contact_inhibited
    /\ oxygen > g0_oxy_threshold

\* C5: right after an M-phase tick current_vol equals seed_vol, the volume
\* handed to the cell body equals it, and the iteration is 0.
C5_DivisionReset ==
    [][last_op' = "m_phase" =>
          /\ current_vol' = seed_vol
          /\ body_vol' = seed_vol
          /\ current_cyc_iteration' = 0]_vars

\* C6: after an M-phase tick that does not mark the cell dead the cell is in
\* phase G1.
C6_RestartInG1 ==
    [][(last_op' = "m_phase" /\ ~is_dead') => current_phase' = "G1"]_vars

\* C7: for an aging type with no hypoxic death, is_dead holds exactly when
\* more than lifespan M-phase ticks have been run.
C7_LifespanDeath ==
    (type_does_age /\ ~hypoxic) => (is_dead <=> m_ticks >= lifespan + 1)

\* C8: hypoxic_death sets is_dead when oxygen is below hypoxia_theshold,
\* leaves it as it was otherwise, and never changes phase, iteration, volume,
\* age, cyc_len or g1_len.
C8_HypoxicDeath ==
    [][last_op' = "hypoxic_death" =>
          /\ is_dead' = (IF oxygen < hypoxia_theshold THEN TRUE ELSE is_dead)
          /\ UNCHANGED <<current_phase, current_cyc_iteration, current_vol,
                         current_age, cyc_len, g1_len>>]_vars

C8_Witness ==
    /\ last_op = "hypoxic_death"
    /\ oxygen = hypoxia_theshold
    /\ ~is_dead
    /\ current_phase = "S"
    /\ current_cyc_iteration > 0

\* C9: once is_dead is true it is true in every later state.
C9_DeathIrreversible == [][is_dead => is_dead']_vars

C9_Witness ==
    /\ is_dead
    /\ last_op = "hypoxic_death"
    /\ oxygen >= hypoxia_theshold

\* C10 as claimed: on a dead cell do_cell_cycle changes none of phase,
\* iteration, volume, age, cyc_len, g1_len.
C10_DeadIsTerminal ==
    [][(is_dead /\ do_cell_cycle) =>
          UNCHANGED <<current_phase, current_cyc_iteration, current_vol,
                      current_age, cyc_len, g1_len>>]_vars

\* C10 amended: do_cell_cycle does not consult is_dead.  On a dead cell it
\* leaves is_dead true and still runs the handler of current_phase: a G1 or S
\* tick increments the iteration, a G0 tick with no contact inhibition and
\* oxygen above g0_oxy_threshold leaves G0.
C10_DeadStillDispatched ==
    [][(is_dead /\ do_cell_cycle) =>
          /\ is_dead'
          /\ (current_phase \in {"G1", "S"} =>
                 current_cyc_iteration' = current_cyc_iteration + 1)
          /\ ((current_phase = "G0" /\ ~contact_inhibited
                  /\ oxygen > g0_oxy_threshold) =>
                 current_phase' \in {"S", "M"})]_vars

C10_Witness ==
    /\ is_dead
    /\ last_op = "g1_phase"
    /\ current_cyc_iteration = g1_len
    /\ current_phase = "S"

\* favourable environment: oxygen above g0_oxy_threshold, no contact inhibition
Favourable == oxygen > g0_oxy_threshold /\ ~contact_inhibited

\* C11: for a fresh cell with g1_len = L > 0 no G1 tick lowers the volume,
\* after the L-th G1 tick current_vol is 2 * seed_vol, and with oxygen above
\* g0_oxy_threshold and no contact inhibition the phase after it is S.
C11_G1Doubles ==
    [][(current_phase = "G1" /\ last_op' = "g1_phase" /\ g1_len > 0
            /\ m_ticks = 0) =>
          /\ RatLeq(current_vol, current_vol')
          /\ (current_cyc_iteration' = g1_len =>
                 /\ current_vol' = RatAdd(seed_vol, seed_vol)
                 /\ body_vol' = current_vol'
                 /\ (Favourable => current_phase' = "S"))]_vars

C11_Witness ==
    /\ last_op = "g1_phase"
    /\ g1_len >= 2
    /\ current_cyc_iteration = g1_len
    /\ current_vol = RatAdd(seed_vol, seed_vol)
    /\ Favourable
    /\ current_phase = "S"

ChangeCount ==
      (IF current_vol' # current_vol THEN 1 ELSE 0)
    + (IF current_phase' # current_phase THEN 1 ELSE 0)
    + (IF current_cyc_iteration' # current_cyc_iteration THEN 1 ELSE 0)
    + (IF is_dead' # is_dead THEN 1 ELSE 0)

\* C12 as claimed: every do_cell_cycle call performs exactly one of volume
\* growth, phase transition, iteration increment, death flag set (stated
\* here for the calls on a cell with positive durations).
C12_OneEffectPerTick ==
    [][(do_cell_cycle /\ 0 < g1_len /\ g1_len < cyc_len - 1) =>
          ChangeCount = 1]_vars

\* C12 amended: a do_cell_cycle call runs one handler, which may perform
\* several effects.  A G1 tick increments the iteration and, unless g1_len
\* is 0, also adds seed_vol / g1_len to the volume and hands it to the cell
\* body; an S tick increments the iteration and leaves the volume; a G0 tick
\* leaves both; the volume changes in G1 ticks only.
C12_EffectsPerHandler ==
    [][do_cell_cycle =>
          /\ (current_phase = "G1" =>
                 /\ current_cyc_iteration' = current_cyc_iteration + 1
                 /\ (g1_len # 0 =>
                        /\ current_vol' =
                               RatAdd(current_vol, Rat(1, g1_len))
                        /\ current_vol' # current_vol
                        /\ vol_calls' = 1))
          /\ (current_phase = "S" =>
                 /\ current_cyc_iteration' = current_cyc_iteration + 1
                 /\ current_vol' = current_vol)
          /\ (current_phase = "G0" =>
                 /\ current_cyc_iteration' = current_cyc_iteration
                 /\ current_vol' = current_vol)
          /\ (current_vol' # current_vol => current_phase = "G1")]_vars

C12_Witness ==
    /\ last_op = "g1_phase"
    /\ vol_calls = 1
    /\ current_cyc_iteration = g1_len
    /\ current_vol # seed_vol
    /\ current_phase = "G0"

\* C13: a G0 tick leaves iteration, volume, age, cyc_len, g1_len and is_dead
\* unchanged and makes no volume-change call; only the phase may change.
C13_G0Frozen ==
    [][(current_phase = "G0" /\ last_op' = "g0_phase") =>
          /\ UNCHANGED <<current_cyc_iteration, current_vol, current_age,
                         cyc_len, g1_len, is_dead, body_vol>>
          /\ vol_calls' = 0]_vars

C13_Witness ==
    /\ last_op = "g0_phase"
    /\ vol_calls = 0
    /\ current_phase = "S"
    /\ current_cyc_iteration = g1_len

C15_InstantExit ==
    [][(current_phase = "G1" /\ last_op' = "g1_phase" /\ g1_len <= 0
            /\ current_cyc_iteration = 0) =>
          (raised' = NoError /\ current_phase' # "G1")]_vars

\* C15 amended: with g1_len <= 0 no G1 tick leaves G1.  With g1_len = 0 the
\* tick increments the iteration and raises ZeroDivisionError at the volume
\* update, leaving the volume alone; with g1_len < 0 it completes and adds
\* the negative increment seed_vol / g1_len.
C15_DegenerateG1 ==
    [][(current_phase = "G1" /\ last_op' = "g1_phase" /\ g1_len <= 0) =>
          /\ current_phase' = "G1"
          /\ current_cyc_iteration' = current_cyc_iteration + 1
          /\ (g1_len = 0 =>
                 /\ raised' = "ZeroDivisionError"
                 /\ current_vol' = current_vol
                 /\ vol_calls' = 0)
          /\ (g1_len < 0 =>
                 /\ raised' = NoError
                 /\ current_vol' = RatAdd(current_vol, Rat(1, g1_len)))]_vars

C15_Witness ==
    /\ last_op = "g1_phase"
    /\ g1_len = 0
    /\ raised = "ZeroDivisionError"
    /\ current_phase = "G1"
    /\ current_cyc_iteration >= 1
    /\ current_vol = seed_vol

\* C16: do_cell_cycle changes is_dead only in an M-phase tick and only to
\* true with current_age above lifespan; G0, G1 and S ticks change neither
\* is_dead nor current_age; for a type that does not age current_age stays 0
\* and no do_cell_cycle call changes is_dead.
C16_LifespanDeathConfined ==
    [][do_cell_cycle =>
          /\ (is_dead' # is_dead =>
                 /\ current_phase \notin {"G0", "G1", "S"}
                 /\ is_dead'
                 /\ current_age' > lifespan)
          /\ (current_phase \in {"G0", "G1", "S"} =>
                 UNCHANGED <<is_dead, current_age>>)
          /\ (~type_does_age =>
                 /\ current_age = 0
                 /\ current_age' = 0
                 /\ is_dead' = is_dead)]_vars

C16_Witness ==
    /\ ~type_does_age
    /\ last_op = "m_phase"
    /\ m_ticks > lifespan
    /\ current_age = 0
    /\ ~is_dead

WellFormed == 0 < g1_len /\ g1_len < cyc_len - 1

\* C18: a cell with 0 < g1_len < cyc_len - 1 that is ticked forever under an
\* environment that is eventually always favourable eventually runs the
\* M-phase handler; a cell with g1_len >= cyc_len - 1 never reaches M, and
\* once in S it stays in S.
C18_Progress ==
    /\ (WellFormed => (<>[]Favourable => <>(m_ticks > 0)))
    /\ [](g1_len >= cyc_len - 1 => (current_phase # "M" /\ m_ticks = 0))
    /\ [][(current_phase = "S" /\ g1_len >= cyc_len - 1) =>
              current_phase' = "S"]_vars

C18_Witness ==
    /\ WellFormed
    /\ Favourable
    /\ last_op = "m_phase"
    /\ m_ticks = 1
    /\ raised = "TypeError"

\* C19: with 0 < g1_len < cyc_len - 1 the iteration is in 0..g1_len-1 in G1,
\* in g1_len..cyc_len-2 in S, and is g1_len or cyc_len - 1 in G0; a cell
\* arrested at the S exit never resumes to S and a cell arrested at the G1
\* exit never resumes to M.
C19_IterationBounds ==
    /\ [](WellFormed =>
            /\ (current_phase = "G1" =>
                   (0 <= current_cyc_iteration
                        /\ current_cyc_iteration < g1_len))
            /\ (current_phase = "S" =>
                   (g1_len <= current_cyc_iteration
                        /\ current_cyc_iteration < cyc_len - 1))
            /\ (current_phase = "G0" =>
                   current_cyc_iteration \in {g1_len, cyc_len - 1}))
    /\ [][(WellFormed /\ current_phase = "G0" /\ last_op' = "g0_phase") =>
              /\ (current_cyc_iteration = cyc_len - 1 =>
                     current_phase' \in {"G0", "M"})
              /\ (current_cyc_iteration = g1_len =>
                     current_phase' \in {"G0", "S"})]_vars

C19_Witness ==
    /\ WellFormed
    /\ last_op = "s_phase"
    /\ current_phase = "G0"
    /\ current_cyc_iteration = cyc_len - 1

\* C20: current_phase is always one of G0, G1, S, M; G2 is never assigned and
\* the G2 handler is never run.
C20_ReachablePhases ==
    /\ current_phase \in {"G0", "G1", "S", "M"}
    /\ last_op # "g2_phase"

C20_Witness ==
    /\ current_phase = "M"
    /\ last_op = "m_phase"
    /\ m_ticks >= 2

====
